---- MODULE Spec2Model ----
(***************************************************************************)
(* Model of podaac/generate_compare: the NetCDF diff engine                *)
(* (src/compare/netcdf.py) and the detail report that turns a diff into    *)
(* per-granule verdicts, and the HTML reports of src/compare/write.py: the *)
(* current report of a dataset, its archive, the timeline history and the  *)
(* timeline page.                                                          *)
(*                                                                         *)
(* A Python dict whose iteration order is observable (dimensions, global   *)
(* attributes, variables, var_content, data_dict) is a sequence of         *)
(* <<key, value>> pairs with pairwise distinct keys, in insertion order.   *)
(* A dict with a fixed or optional set of string keys is a record; an      *)
(* optional key is tested with DOMAIN.                                     *)
(***************************************************************************)
EXTENDS Integers, Sequences, FiniteSets, TLC

VARIABLES prod_ds, dev_ds, netcdf, granule_data, pc

\* The granules that the queries found on both sides, and the lines of the
\* report file.
VARIABLES ops_granules, test_granules, report

\* The files of html_dir, the runs of write_html_reports in flight, and the
\* runs that were started, in order.
VARIABLES new_index, index, archive, json, timeline, run, runs

compare_vars ==
    <<prod_ds, dev_ds, netcdf, granule_data, pc, ops_granules, test_granules, report>>

html_vars == <<new_index, index, archive, json, timeline, run, runs>>

vars == <<prod_ds, dev_ds, netcdf, granule_data, pc, ops_granules, test_granules, report,
          new_index, index, archive, json, timeline, run, runs>>

(***************************************************************************)
(* Bounds of the model.                                                    *)
(***************************************************************************)
MaxDims == 2

MaxAtts == 2

MaxVars == 3

MaxVarAtts == 2

MaxCells == 2

(***************************************************************************)
(* Ordered mappings.                                                       *)
(***************************************************************************)
keys(m) == [i \in 1..Len(m) |-> m[i][1]]

has_key(m, k) == \E i \in 1..Len(m) : m[i][1] = k

get(m, k) == m[CHOOSE i \in 1..Len(m) : m[i][1] = k][2]

Range(s) == {s[i] : i \in 1..Len(s)}

\* All sequences of length n of pairwise distinct elements of S.
RECURSIVE DistinctSeqs(_, _)
DistinctSeqs(S, n) ==
    IF n = 0 THEN {<<>>}
    ELSE UNION {{Append(s, e) : e \in S \ Range(s)} : s \in DistinctSeqs(S, n - 1)}

DistinctSeqsUpTo(S, n) == UNION {DistinctSeqs(S, i) : i \in 0..n}

\* All ordered mappings with at most n entries, keys from K, values from V.
RECURSIVE MapsOfLen(_, _, _)
MapsOfLen(K, V, n) ==
    IF n = 0 THEN {<<>>}
    ELSE UNION {{Append(m, <<k, v>>) : k \in K \ Range(keys(m)), v \in V} :
                m \in MapsOfLen(K, V, n - 1)}

MapsUpTo(K, V, n) == UNION {MapsOfLen(K, V, i) : i \in 0..n}

(***************************************************************************)
(* Array payloads.  A number is [nan, num]; NaN is a value that the plain  *)
(* comparison a == b never finds equal to anything, itself included.       *)
(***************************************************************************)
FillValue == -9999

Num(n) == [nan |-> FALSE, num |-> n]

NaN == [nan |-> TRUE, num |-> 0]

\* numpy's a == b on two numbers.
num_eq(a, b) == ~a.nan /\ ~b.nan /\ a.num = b.num

\* A cell of a masked array: the mask bit and the data under it.
Cell(m, v) == [masked |-> m, val |-> v]

\* MaskedArray.filled(fill_value): the data, with fill_value in masked cells.
filled(a, fill_value) ==
    [shape |-> a.shape,
     cells |-> [i \in 1..Len(a.cells) |->
                  IF a.cells[i].masked THEN Num(fill_value) ELSE a.cells[i].val]]

\* np.array_equal(a1, a2, equal_nan): shapes must agree, then every cell.
array_equal(a1, a2, equal_nan) ==
    /\ a1.shape = a2.shape
    /\ \A i \in 1..Len(a1.cells) :
          \/ num_eq(a1.cells[i], a2.cells[i])
          \/ equal_nan /\ a1.cells[i].nan /\ a2.cells[i].nan

(***************************************************************************)
(* compare_attributes, compare_dimensions, compare_variables.              *)
(***************************************************************************)
\* Mutant: the membership test without its negation.
present_only_negation_lost(a, b) == SelectSeq(keys(a), LAMBDA k : has_key(b, k))

\* [k for k in a.keys() if k not in b.keys()]
present_only(a, b) == SelectSeq(keys(a), LAMBDA k : ~has_key(b, k))

compare_attributes(dev, prod) ==
    LET differ == SelectSeq(dev.atts,
                    LAMBDA e : has_key(prod.atts, e[1]) /\ get(prod.atts, e[1]) # e[2])
    IN [prod_present_only |-> present_only(prod.atts, dev.atts),
        dev_present_only  |-> present_only(dev.atts, prod.atts),
        global_att        |-> [i \in 1..Len(differ) |->
                                 <<differ[i][1], get(prod.atts, differ[i][1]), differ[i][2]>>]]

\* Mutant: the triple holds the development size before the production size.
compare_dimensions_dev_first(dev, prod) ==
    LET shared == SelectSeq(dev.dims, LAMBDA e : has_key(prod.dims, e[1]))
        names  == SelectSeq(shared, LAMBDA e : get(prod.dims, e[1]).name # e[2].name)
        sizes  == SelectSeq(shared, LAMBDA e : get(prod.dims, e[1]).size # e[2].size)
    IN [prod_present_only |-> present_only(prod.dims, dev.dims),
        dev_present_only  |-> present_only(dev.dims, prod.dims),
        names_not_equal   |-> [i \in 1..Len(names) |->
                                 <<names[i][1], get(prod.dims, names[i][1]).name, names[i][2].name>>],
        size_not_equal    |-> [i \in 1..Len(sizes) |->
                                 <<sizes[i][1], sizes[i][2].size, get(prod.dims, sizes[i][1]).size>>]]

compare_dimensions(dev, prod) ==
    LET shared == SelectSeq(dev.dims, LAMBDA e : has_key(prod.dims, e[1]))
        names  == SelectSeq(shared, LAMBDA e : get(prod.dims, e[1]).name # e[2].name)
        sizes  == SelectSeq(shared, LAMBDA e : get(prod.dims, e[1]).size # e[2].size)
    IN [prod_present_only |-> present_only(prod.dims, dev.dims),
        dev_present_only  |-> present_only(dev.dims, prod.dims),
        names_not_equal   |-> [i \in 1..Len(names) |->
                                 <<names[i][1], get(prod.dims, names[i][1]).name, names[i][2].name>>],
        size_not_equal    |-> [i \in 1..Len(sizes) |->
                                 <<sizes[i][1], get(prod.dims, sizes[i][1]).size, sizes[i][2].size>>]]

Min(a, b) == IF a < b THEN a ELSE b

\* Mutant: every key of the development side needs its partner, the keys the
\* production side has beyond them are not looked at.
atts_equal_dev_exhausted(dev_atts, prod_atts) ==
    \A i \in 1..Len(dev_atts) : i <= Len(prod_atts) /\ dev_atts[i] = prod_atts[i]

\* Mutant: key sequences of different lengths are not equal.
atts_equal_same_length(dev_atts, prod_atts) ==
    /\ Len(dev_atts) = Len(prod_atts)
    /\ \A i \in 1..Len(dev_atts) : dev_atts[i] = prod_atts[i]

\* reduce(lambda j, k: j and k, map(lambda i, j: i == j, dev_atts, prod_atts), True)
\* map over two iterables stops at the end of the shorter one.
atts_equal(dev_atts, prod_atts) ==
    \A i \in 1..Min(Len(dev_atts), Len(prod_atts)) : dev_atts[i] = prod_atts[i]

\* Mutant: np.array_equal without equal_nan.
arrays_equal_nan_differs(dev_v, prod_v) ==
    array_equal(filled(dev_v, FillValue), filled(prod_v, FillValue), FALSE)

arrays_equal(dev_v, prod_v) ==
    array_equal(filled(dev_v, FillValue), filled(prod_v, FillValue), TRUE)

\* The var_content entry of one variable of the development dataset.
var_entry(k, v, prod) ==
    IF ~has_key(prod.vars, k) THEN <<>>
    ELSE [atts_equal   |-> atts_equal(v.atts, get(prod.vars, k).atts),
          arrays_equal |-> arrays_equal(v.data, get(prod.vars, k).data)]

compare_variables(dev, prod) ==
    [prod_present_only |-> present_only(prod.vars, dev.vars),
     dev_present_only  |-> present_only(dev.vars, prod.vars),
     var_content       |-> [i \in 1..Len(dev.vars) |->
                              <<dev.vars[i][1], var_entry(dev.vars[i][1], dev.vars[i][2], prod)>>]]

(***************************************************************************)
(* write_netcdf_dims, write_netcdf_atts, write_netcdf_var: the verdict of  *)
(* each axis.                                                              *)
(***************************************************************************)
\* Mutant: the size mismatches do not count.
write_netcdf_dims_sizes_ignored(dim_dict) ==
    /\ Len(dim_dict.dev_present_only) = 0
    /\ Len(dim_dict.prod_present_only) = 0
    /\ Len(dim_dict.names_not_equal) = 0

write_netcdf_dims(dim_dict) ==
    /\ Len(dim_dict.dev_present_only) = 0
    /\ Len(dim_dict.prod_present_only) = 0
    /\ Len(dim_dict.names_not_equal) = 0
    /\ Len(dim_dict.size_not_equal) = 0

\* A local variable that no assignment has reached yet.
Unbound == "<unbound>"

\* The loop over att_dict["global_att"], from entry i on; st holds the locals
\* equal, prod_date and test_date.
RECURSIVE atts_loop(_, _, _)
atts_loop(global_att, i, st) ==
    IF i > Len(global_att) THEN st
    ELSE atts_loop(global_att, i + 1,
            IF global_att[i][1] = "date_created"
            THEN [equal     |-> IF Len(global_att) = 1 THEN TRUE ELSE st.equal,
                  prod_date |-> global_att[i][2],
                  test_date |-> global_att[i][3]]
            ELSE st)

\* Mutant: no exception for a lone date_created mismatch.
write_netcdf_atts_no_carve_out(att_dict) ==
    LET st == atts_loop(att_dict.global_att, 1,
                        [equal |-> FALSE, prod_date |-> Unbound, test_date |-> Unbound])
    IN IF st.prod_date = Unbound \/ st.test_date = Unbound
       THEN [raised |-> TRUE]
       ELSE [raised |-> FALSE, equal |-> FALSE,
             prod_date |-> st.prod_date, test_date |-> st.test_date]

\* Returning a local that was never assigned raises UnboundLocalError.
write_netcdf_atts(att_dict) ==
    LET e1 == Len(att_dict.dev_present_only) = 0
        e2 == IF Len(att_dict.prod_present_only) # 0 THEN FALSE ELSE e1
        st == IF Len(att_dict.global_att) # 0
              THEN atts_loop(att_dict.global_att, 1,
                             [equal |-> FALSE, prod_date |-> Unbound, test_date |-> Unbound])
              ELSE [equal |-> e2, prod_date |-> Unbound, test_date |-> Unbound]
    IN IF st.prod_date = Unbound \/ st.test_date = Unbound
       THEN [raised |-> TRUE]
       ELSE [raised |-> FALSE, equal |-> st.equal,
             prod_date |-> st.prod_date, test_date |-> st.test_date]

\* One pass of the try block over var_content[k]; a missing field is the
\* KeyError branch.
var_ok(entry) ==
    IF "atts_equal" \in DOMAIN entry /\ "arrays_equal" \in DOMAIN entry
    THEN entry.atts_equal /\ entry.arrays_equal
    ELSE FALSE

\* Mutant: the variables of production only do not count.
write_netcdf_var_prod_only_ignored(var_dict) ==
    /\ Len(var_dict.dev_present_only) = 0
    /\ \A i \in 1..Len(var_dict.var_content) : var_ok(var_dict.var_content[i][2])

write_netcdf_var(var_dict) ==
    /\ Len(var_dict.dev_present_only) = 0
    /\ Len(var_dict.prod_present_only) = 0
    /\ \A i \in 1..Len(var_dict.var_content) : var_ok(var_dict.var_content[i][2])

(***************************************************************************)
(* write_netcdf_report: the verdicts of every file of data_dict.           *)
(***************************************************************************)
ReportFile == "report.txt"

\* The loop over data_dict.keys(), from file i on; acc holds the locals
\* granules and nc_not_equal, or the exception that left the loop.
RECURSIVE report_loop(_, _, _)
report_loop(data_dict, i, acc) ==
    IF i > Len(data_dict) \/ acc.raised THEN acc
    ELSE LET nc_file    == data_dict[i][1]
             equal_dims == write_netcdf_dims(data_dict[i][2].dim_dict)
             a          == write_netcdf_atts(data_dict[i][2].att_dict)
             equal_vars == write_netcdf_var(data_dict[i][2].var_dict)
         IN IF a.raised THEN [raised |-> TRUE]
            ELSE report_loop(data_dict, i + 1,
                   [raised       |-> FALSE,
                    nc_not_equal |-> IF ~equal_dims \/ ~a.equal \/ ~equal_vars
                                     THEN Append(acc.nc_not_equal, nc_file)
                                     ELSE acc.nc_not_equal,
                    granules     |-> Append(acc.granules,
                                       <<nc_file, [equal_dims |-> equal_dims,
                                                   equal_atts |-> a.equal,
                                                   equal_vars |-> equal_vars,
                                                   ops_date   |-> a.prod_date,
                                                   uat_date   |-> a.test_date]>>)])

write_netcdf_report(data_dict) ==
    LET r == report_loop(data_dict, 1,
                         [raised |-> FALSE, nc_not_equal |-> <<>>, granules |-> <<>>])
    IN IF r.raised THEN [raised |-> TRUE]
       ELSE IF Len(r.nc_not_equal) # 0
       THEN [raised |-> FALSE,
             granule_data |-> [granules |-> r.granules, nc_not_equal |-> r.nc_not_equal,
                               report_file |-> ReportFile]]
       ELSE [raised |-> FALSE,
             granule_data |-> [granules |-> r.granules, report_file |-> ReportFile]]

(***************************************************************************)
(* Inputs: pairs of datasets <<production, development>>.                  *)
(***************************************************************************)
DimNames == {"time", "lat", "lon"}

DimSizes == {10, 12}

\* Dataset.dimensions: a Dimension object is filed under its own name.
DimMaps(n) ==
    {[i \in 1..Len(m) |-> <<m[i][1], [name |-> m[i][1], size |-> m[i][2]]>>] :
       m \in MapsUpTo(DimNames, DimSizes, n)}

AttNames == {"date_created", "title", "history"}

AttValues == {"a", "b"}

VarNames == {"sst", "lat", "lon"}

VarAttNames == {"units", "long_name", "comment"}

Values == {Num(1), Num(FillValue), NaN}

Cells == {Cell(FALSE, v) : v \in Values} \cup {Cell(TRUE, Num(1)), Cell(TRUE, NaN)}

\* Arrays of n cells: one dimension, or a leading dimension of length one.
ArraysOfLen(n) ==
    {[shape |-> sh, cells |-> c] : sh \in {<<n>>, <<1, n>>}, c \in [1..n -> Cells]}

Arrays(n) == UNION {ArraysOfLen(i) : i \in 0..n}

NoData == [shape |-> <<0>>, cells |-> <<>>]

OneCell == [shape |-> <<1>>, cells |-> <<Cell(FALSE, Num(1))>>]

Dataset(d, a, v) == [dims |-> d, atts |-> a, vars |-> v]

\* The three axes vary together over a few values each.
SmallDims == {<<>>, <<<<"time", [name |-> "time", size |-> 10]>>>>,
              <<<<"time", [name |-> "time", size |-> 12]>>>>}

SmallAtts == {<<>>, <<<<"date_created", "a">>>>, <<<<"date_created", "b">>>>,
              <<<<"title", "a">>>>}

SmallVars == {<<>>, <<<<"sst", [atts |-> <<>>, data |-> OneCell]>>>>,
              <<<<"sst", [atts |-> <<>>, data |-> NoData]>>>>}

\* The global attributes of the runs in which another axis varies: the
\* creation time alone differs, or nothing does.
CreatedAt(v) == <<<<"date_created", v>>>>

AttContexts == {<<CreatedAt("a"), CreatedAt("b")>>, <<CreatedAt("a"), CreatedAt("a")>>}

VarsOf(names, contents) ==
    UNION {{[i \in 1..Len(ks) |-> <<ks[i], c[i]>>] : c \in [1..Len(ks) -> contents]} :
           ks \in names}

PlainVars == VarsOf(DistinctSeqsUpTo(VarNames, MaxVars),
                    {[atts |-> <<>>, data |-> OneCell], [atts |-> <<>>, data |-> NoData]})

AttrVars == VarsOf({<<"sst">>},
                   {[atts |-> ks, data |-> OneCell] :
                      ks \in DistinctSeqsUpTo(VarAttNames, MaxVarAtts)})

DataVars == VarsOf({<<"sst">>}, {[atts |-> <<>>, data |-> d] : d \in Arrays(MaxCells)})

(***************************************************************************)
(* The run: compare the granule held by both sides, then write the report. *)
(***************************************************************************)
Granule == "granule.nc"

\* DATASET_DICT.values()
Datasets == {"aqua", "terra"}

\* The processes that run write_html_reports.
Procs == {1, 2}

Idle == [at |-> "idle"]

\* An html_dir that no run has written to; a file is <<>> when it does not
\* exist and <<content>> when it does.
EmptyHtmlDir ==
    /\ new_index = [d \in Datasets |-> <<>>]
    /\ index = [d \in Datasets |-> <<>>]
    /\ archive = <<>>
    /\ json = [d \in Datasets |-> <<>>]
    /\ timeline = [d \in Datasets |-> <<>>]

\* The state after query_date or query_name.
Queried(prod, dev, ops, test) ==
    /\ prod_ds = prod
    /\ dev_ds = dev
    /\ netcdf = <<>>
    /\ granule_data = <<>>
    /\ pc = "compare"
    /\ ops_granules = ops
    /\ test_granules = test
    /\ report = <<>>
    /\ EmptyHtmlDir
    /\ run = [p \in Procs |-> Idle]
    /\ runs = <<>>

Start(prod, dev) == Queried(prod, dev, <<Granule>>, <<Granule>>)

\* The three axes differ together.
InitMixed ==
    \E d1 \in SmallDims, d2 \in SmallDims, a1 \in SmallAtts, a2 \in SmallAtts,
       v1 \in SmallVars, v2 \in SmallVars :
        Start(Dataset(d1, a1, v1), Dataset(d2, a2, v2))

\* The dimensions differ.
InitDims ==
    \E d1 \in DimMaps(MaxDims), d2 \in DimMaps(MaxDims), a \in AttContexts :
        Start(Dataset(d1, a[1], <<>>), Dataset(d2, a[2], <<>>))

\* The global attributes differ.
InitAtts ==
    \E a1 \in MapsUpTo(AttNames, AttValues, MaxAtts),
       a2 \in MapsUpTo(AttNames, AttValues, MaxAtts),
       d \in SmallDims, v \in SmallVars :
        Start(Dataset(d, a1, v), Dataset(d, a2, v))

\* The variables differ: in presence, in attribute keys, in data.
InitVars ==
    \E V \in {PlainVars, AttrVars, DataVars}, a \in AttContexts :
        \E v1 \in V, v2 \in V :
            Start(Dataset(<<>>, a[1], v1), Dataset(<<>>, a[2], v2))

\* What a query can find on one side.
Found == {<<>>, <<Granule>>, <<Granule, "other.nc">>}

\* One side or both have no granule.
InitNoPair ==
    \E ops \in Found, test \in Found :
        /\ ops = <<>> \/ test = <<>>
        /\ Queried(Dataset(<<>>, <<>>, <<>>), Dataset(<<>>, <<>>, <<>>), ops, test)

Init == InitMixed \/ InitDims \/ InitAtts \/ InitVars \/ InitNoPair

(***************************************************************************)
(* The lines of the report file.  A line is the section it belongs to,     *)
(* the part of the section, and what it says: the head of a list, an entry *)
(* of a list, or that there is nothing to list.                            *)
(***************************************************************************)
Line(section, part, text) == [section |-> section, part |-> part, text |-> text]

Entries(section, part, n) == [i \in 1..n |-> Line(section, part, "entry")]

\* if len(...) != 0: head and one line for each element; else: one line.
listing(section, part, elements) ==
    IF Len(elements) # 0
    THEN <<Line(section, part, "head")>> \o Entries(section, part, Len(elements))
    ELSE <<Line(section, part, "none")>>

\* The same for triples, three lines each.
RECURSIVE triples(_, _, _)
triples(section, part, n) ==
    IF n = 0 THEN <<>>
    ELSE <<Line(section, part, "entry"), Line(section, part, "production"),
           Line(section, part, "development")>> \o triples(section, part, n - 1)

mismatches(section, part, elements) ==
    IF Len(elements) # 0
    THEN <<Line(section, part, "head")>> \o triples(section, part, Len(elements))
    ELSE <<Line(section, part, "none")>>

write_netcdf_dims_lines(dim_dict) ==
    <<Line("dims", "title", "head")>>
    \o listing("dims", "dev_present_only", dim_dict.dev_present_only)
    \o listing("dims", "prod_present_only", dim_dict.prod_present_only)
    \o mismatches("dims", "names_not_equal", dim_dict.names_not_equal)
    \o mismatches("dims", "size_not_equal", dim_dict.size_not_equal)

\* Every line is written before the return that can raise.
write_netcdf_atts_lines(att_dict) ==
    <<Line("atts", "title", "head")>>
    \o listing("atts", "dev_present_only", att_dict.dev_present_only)
    \o listing("atts", "prod_present_only", att_dict.prod_present_only)
    \o mismatches("atts", "global_att", att_dict.global_att)

RECURSIVE var_content_lines(_, _)
var_content_lines(var_content, i) ==
    IF i > Len(var_content) THEN <<>>
    ELSE LET entry == var_content[i][2]
         IN (IF /\ "atts_equal" \in DOMAIN entry /\ "arrays_equal" \in DOMAIN entry
                /\ (~entry.atts_equal \/ ~entry.arrays_equal)
             THEN <<Line("vars", "var_content", "entry"),
                    Line("vars", "var_content", "atts_equal"),
                    Line("vars", "var_content", "arrays_equal")>>
             ELSE <<>>)
            \o var_content_lines(var_content, i + 1)

write_netcdf_var_lines(var_dict) ==
    <<Line("vars", "title", "head")>>
    \o listing("vars", "dev_present_only", var_dict.dev_present_only)
    \o listing("vars", "prod_present_only", var_dict.prod_present_only)
    \o <<Line("vars", "var_content", "head")>>
    \o var_content_lines(var_dict.var_content, 1)
    \o (IF write_netcdf_var(var_dict) THEN <<Line("vars", "var_content", "none")>> ELSE <<>>)

\* The lines of write_netcdf_report for the files from i on; the exception
\* of write_netcdf_atts leaves the file as it is then.
RECURSIVE report_loop_lines(_, _)
report_loop_lines(data_dict, i) ==
    IF i > Len(data_dict) THEN <<>>
    ELSE <<Line("file", "title", "head")>>
         \o write_netcdf_dims_lines(data_dict[i][2].dim_dict)
         \o write_netcdf_atts_lines(data_dict[i][2].att_dict)
         \o (IF write_netcdf_atts(data_dict[i][2].att_dict).raised THEN <<>>
             ELSE write_netcdf_var_lines(data_dict[i][2].var_dict)
                  \o <<Line("file", "separator", "head")>>
                  \o report_loop_lines(data_dict, i + 1))

write_netcdf_report_lines(data_dict) ==
    LET r == write_netcdf_report(data_dict)
    IN <<Line("netcdf", "title", "head")>>
       \o report_loop_lines(data_dict, 1)
       \o (IF r.raised THEN <<>>
           ELSE IF "nc_not_equal" \in DOMAIN r.granule_data
           THEN listing("netcdf", "nc_not_equal", r.granule_data.nc_not_equal)
           ELSE <<Line("netcdf", "nc_not_equal", "none")>>)

\* if len(...) > 0: a rule, a head and one line for each granule.
granule_list(part, granules, rule) ==
    IF Len(granules) > 0
    THEN (IF rule THEN <<Line("granules", part, "rule")>> ELSE <<>>)
         \o <<Line("granules", part, "head")>>
         \o Entries("granules", part, Len(granules))
    ELSE <<>>

\* write_txt_report up to the call of write_netcdf_report.
write_txt_report_lines(ops, test, granule_diffs, with_netcdf) ==
    <<Line("granules", "title", "head"), Line("granules", "differences", "head"),
      Line("granules", "number", "ops"), Line("granules", "number", "test")>>
    \o granule_list("ops_only", granule_diffs.ops_only, TRUE)
    \o granule_list("test_only", granule_diffs.test_only, TRUE)
    \o (IF ~with_netcdf
        THEN granule_list("ops_granules", ops, FALSE)
             \o granule_list("test_granules", test, FALSE)
        ELSE <<>>)
    \o <<Line("granules", "separator", "head")>>

\* Compare.__init__: granule_diffs before compare_granules.
NoDiffs == [ops_only |-> <<>>, test_only |-> <<>>]

\* compare_granules: the granules of one side whose name the other side
\* does not have.
granule_diffs_of(ops, test) ==
    [ops_only  |-> SelectSeq(ops, LAMBDA g : g \notin Range(test)),
     test_only |-> SelectSeq(test, LAMBDA g : g \notin Range(ops))]

\* compare_netcdfs_dl / compare_netcdfs_s3 over the one common granule.
compare_netcdfs ==
    /\ pc = "compare"
    /\ Len(ops_granules) # 0 /\ Len(test_granules) # 0
    /\ netcdf' = <<<<Granule, [dim_dict |-> compare_dimensions(dev_ds, prod_ds),
                               att_dict |-> compare_attributes(dev_ds, prod_ds),
                               var_dict |-> compare_variables(dev_ds, prod_ds)]>>>>
    /\ pc' = "report"
    /\ UNCHANGED <<prod_ds, dev_ds, granule_data, ops_granules, test_granules, report>>
    /\ UNCHANGED html_vars

\* write_txt_report(..., netcdf=True): the exception of write_netcdf_report
\* is not caught anywhere and ends the run.
write_txt_report ==
    /\ pc = "report"
    /\ LET r == write_netcdf_report(netcdf)
       IN IF r.raised
          THEN pc' = "raised" /\ UNCHANGED granule_data
          ELSE pc' = "reported" /\ granule_data' = r.granule_data
    /\ report' = write_txt_report_lines(ops_granules, test_granules,
                     granule_diffs_of(ops_granules, test_granules), TRUE)
                  \o write_netcdf_report_lines(netcdf)
    /\ UNCHANGED <<prod_ds, dev_ds, netcdf, ops_granules, test_granules>>
    /\ UNCHANGED html_vars

\* compare_handler when a side has no granule: write_reports with
\* netcdf=False, then sys.exit(0).  compare_granules is not called.
cannot_compare ==
    /\ pc = "compare"
    /\ Len(ops_granules) = 0 \/ Len(test_granules) = 0
    /\ report' = write_txt_report_lines(ops_granules, test_granules, NoDiffs, FALSE)
    /\ pc' = "exit"
    /\ UNCHANGED <<prod_ds, dev_ds, netcdf, granule_data, ops_granules, test_granules>>
    /\ UNCHANGED html_vars

Next == compare_netcdfs \/ write_txt_report \/ cannot_compare

Spec == Init /\ [][Next]_vars

(***************************************************************************)
(* The state a claim speaks about.                                         *)
(***************************************************************************)
\* compare_granules has returned.
Compared == pc \in {"report", "reported", "raised"}

Reported == pc = "reported"

DimDiff == netcdf[1][2].dim_dict

AttDiff == netcdf[1][2].att_dict

VarDiff == netcdf[1][2].var_dict

Verdict == granule_data.granules[1][2]

Listed == "nc_not_equal" \in DOMAIN granule_data /\ Granule \in Range(granule_data.nc_not_equal)

Names(m) == Range(keys(m))

Shared(a, b) == Names(a) \cap Names(b)

Identical == prod_ds = dev_ds

\* Every presence and mismatch list is empty and every variable compares equal.
AllEmpty ==
    /\ DimDiff = [prod_present_only |-> <<>>, dev_present_only |-> <<>>,
                  names_not_equal |-> <<>>, size_not_equal |-> <<>>]
    /\ AttDiff = [prod_present_only |-> <<>>, dev_present_only |-> <<>>, global_att |-> <<>>]
    /\ VarDiff.prod_present_only = <<>>
    /\ VarDiff.dev_present_only = <<>>
    /\ \A i \in 1..Len(VarDiff.var_content) :
          VarDiff.var_content[i][2] = [atts_equal |-> TRUE, arrays_equal |-> TRUE]

VerdictEqual ==
    /\ Verdict.equal_dims
    /\ Verdict.equal_atts
    /\ Verdict.equal_vars
    /\ ~Listed

\* The two sides hold the same global attribute names in the same order and
\* differ in the value of exactly the attributes of D.
AttsDifferIn(D) ==
    /\ keys(prod_ds.atts) = keys(dev_ds.atts)
    /\ {k \in Names(prod_ds.atts) : get(prod_ds.atts, k) # get(dev_ds.atts, k)} = D

SameDimsAndVars == prod_ds.dims = dev_ds.dims /\ prod_ds.vars = dev_ds.vars

(***************************************************************************)
(* C1.  Identical reference and candidate: the diff is all-empty, the      *)
(* report is written without an exception and the granule's verdict is     *)
(* equal (equal_dims, equal_atts, equal_vars true, not in nc_not_equal).   *)
(***************************************************************************)
C1_IdenticalIsEqual ==
    Identical =>
        /\ Compared => AllEmpty
        /\ pc # "raised"
        /\ Reported => VerdictEqual

\* The part of C1 that the code keeps: the diff of identical datasets.
C1_IdenticalDiffEmpty == (Identical /\ Compared) => AllEmpty

(***************************************************************************)
(* C2.  The two sides differ only in the value of one global attribute     *)
(* other than date_created: the report renders the verdict not equal       *)
(* (equal_atts false, granule listed in nc_not_equal).                     *)
(***************************************************************************)
OneOtherAttDiffers ==
    /\ SameDimsAndVars
    /\ \E k \in Names(prod_ds.atts) \ {"date_created"} : AttsDifferIn({k})

C2_OneAttributeIsUnequal ==
    (OneOtherAttDiffers /\ pc \notin {"compare", "report"}) =>
        /\ Reported
        /\ ~Verdict.equal_atts
        /\ Listed

(***************************************************************************)
(* C3.  The two sides differ only in the value of date_created: the        *)
(* verdict is equal and the returned dates are the two date_created        *)
(* values, reference side and candidate side.                              *)
(***************************************************************************)
OnlyDateCreatedDiffers == SameDimsAndVars /\ AttsDifferIn({"date_created"})

C3_DateCreatedCarveOut ==
    (OnlyDateCreatedDiffers /\ pc \notin {"compare", "report"}) =>
        /\ Reported
        /\ VerdictEqual
        /\ Verdict.ops_date = get(prod_ds.atts, "date_created")
        /\ Verdict.uat_date = get(dev_ds.atts, "date_created")

C3_Witness ==
    /\ Reported
    /\ OnlyDateCreatedDiffers
    /\ prod_ds.dims # <<>>
    /\ prod_ds.vars # <<>>
    /\ Len(prod_ds.atts) > 1

(***************************************************************************)
(* C4.  In write_netcdf_report the granule is listed in nc_not_equal       *)
(* exactly when one of equal_dims, equal_atts, equal_vars is false;        *)
(* equal_dims is true exactly when all lists of the dimension diff are     *)
(* empty; equal_vars is true exactly when both variable presence lists are *)
(* empty and every var_content entry has atts_equal and arrays_equal true. *)
(***************************************************************************)
HasBoth(entry) ==
    /\ "atts_equal" \in DOMAIN entry
    /\ "arrays_equal" \in DOMAIN entry
    /\ entry.atts_equal
    /\ entry.arrays_equal

C4_VerdictIsConjunction ==
    Reported =>
        /\ Listed <=> ~(Verdict.equal_dims /\ Verdict.equal_atts /\ Verdict.equal_vars)
        /\ Verdict.equal_dims <=>
              (/\ DimDiff.prod_present_only = <<>>
               /\ DimDiff.dev_present_only = <<>>
               /\ DimDiff.names_not_equal = <<>>
               /\ DimDiff.size_not_equal = <<>>)
        /\ Verdict.equal_vars <=>
              (/\ VarDiff.prod_present_only = <<>>
               /\ VarDiff.dev_present_only = <<>>
               /\ \A i \in 1..Len(VarDiff.var_content) : HasBoth(VarDiff.var_content[i][2]))

\* Only the variables are unequal, and only in the content of a shared one.
C4_Witness ==
    /\ Reported
    /\ Listed
    /\ Verdict.equal_dims
    /\ Verdict.equal_atts
    /\ ~Verdict.equal_vars
    /\ VarDiff.prod_present_only = <<>>
    /\ VarDiff.dev_present_only = <<>>

(***************************************************************************)
(* C5.  On each axis dev_present_only holds exactly the names of the       *)
(* candidate that the reference lacks and prod_present_only exactly the    *)
(* names of the reference that the candidate lacks, each name once; a name *)
(* of one side only is never value-compared.                               *)
(***************************************************************************)
ListsExactly(l, S) == Range(l) = S /\ Len(l) = Cardinality(S)

PresenceExact(d, dev, prod) ==
    /\ ListsExactly(d.dev_present_only, Names(dev) \ Names(prod))
    /\ ListsExactly(d.prod_present_only, Names(prod) \ Names(dev))

OnlyShared(l, dev, prod) == \A t \in Range(l) : t[1] \in Shared(dev, prod)

C5_PresenceLists ==
    Compared =>
        /\ PresenceExact(DimDiff, dev_ds.dims, prod_ds.dims)
        /\ PresenceExact(AttDiff, dev_ds.atts, prod_ds.atts)
        /\ PresenceExact(VarDiff, dev_ds.vars, prod_ds.vars)
        /\ OnlyShared(DimDiff.size_not_equal, dev_ds.dims, prod_ds.dims)
        /\ OnlyShared(DimDiff.names_not_equal, dev_ds.dims, prod_ds.dims)
        /\ OnlyShared(AttDiff.global_att, dev_ds.atts, prod_ds.atts)
        /\ \A e \in Range(VarDiff.var_content) :
              e[1] \notin Names(prod_ds.vars) => DOMAIN e[2] = {}

C5_Witness ==
    /\ Compared
    /\ Len(DimDiff.dev_present_only) = 1
    /\ Len(DimDiff.prod_present_only) = 1
    /\ DimDiff.size_not_equal # <<>>

(***************************************************************************)
(* C6.  Swapping reference and candidate swaps the two presence lists      *)
(* exactly and leaves every other field of the diff unchanged.             *)
(***************************************************************************)
SwapDim == compare_dimensions(prod_ds, dev_ds)

SwapAtt == compare_attributes(prod_ds, dev_ds)

SwapVar == compare_variables(prod_ds, dev_ds)

PresenceSwapped(d, sw) ==
    /\ sw.prod_present_only = d.dev_present_only
    /\ sw.dev_present_only = d.prod_present_only

\* The claim as stated.
C6_SwapLeavesRestUnchanged ==
    Compared =>
        /\ PresenceSwapped(DimDiff, SwapDim)
        /\ PresenceSwapped(AttDiff, SwapAtt)
        /\ PresenceSwapped(VarDiff, SwapVar)
        /\ SwapDim.names_not_equal = DimDiff.names_not_equal
        /\ SwapDim.size_not_equal = DimDiff.size_not_equal
        /\ SwapAtt.global_att = AttDiff.global_att
        /\ SwapVar.var_content = VarDiff.var_content

Exchanged(l) == {<<t[1], t[3], t[2]>> : t \in Range(l)}

\* The claim as amended: the presence lists swap exactly, every mismatch
\* triple reappears with its two values exchanged, the booleans of a variable
\* of both sides are unchanged, and var_content is keyed by the variables of
\* the new candidate.
C6_SwapExchangesSides ==
    Compared =>
        /\ PresenceSwapped(DimDiff, SwapDim)
        /\ PresenceSwapped(AttDiff, SwapAtt)
        /\ PresenceSwapped(VarDiff, SwapVar)
        /\ Range(SwapDim.names_not_equal) = Exchanged(DimDiff.names_not_equal)
        /\ Range(SwapDim.size_not_equal) = Exchanged(DimDiff.size_not_equal)
        /\ Len(SwapDim.size_not_equal) = Len(DimDiff.size_not_equal)
        /\ Range(SwapAtt.global_att) = Exchanged(AttDiff.global_att)
        /\ Len(SwapAtt.global_att) = Len(AttDiff.global_att)
        /\ keys(SwapVar.var_content) = keys(prod_ds.vars)
        /\ \A k \in Shared(dev_ds.vars, prod_ds.vars) :
              get(SwapVar.var_content, k) = get(VarDiff.var_content, k)

C6_Witness ==
    /\ Compared
    /\ AttDiff.global_att # <<>>
    /\ AttDiff.prod_present_only # <<>>
    /\ AttDiff.dev_present_only = <<>>

(***************************************************************************)
(* C7.  For a name of both sides the diff holds the triple (name,          *)
(* reference value, candidate value) exactly when the two values differ:   *)
(* dimension sizes in size_not_equal, global attribute values in           *)
(* global_att; time of size 10 against 12 gives [(time, 10, 12)] and a     *)
(* verdict of not equal.                                                   *)
(***************************************************************************)
\* l holds, once each, the triples of the shared names whose values differ.
TriplesExactly(l, dev, prod, val(_)) ==
    ListsExactly(l, {<<k, val(get(prod, k)), val(get(dev, k))>> :
                       k \in {n \in Shared(dev, prod) : val(get(prod, n)) # val(get(dev, n))}})

SizeOf(d) == d.size

Itself(v) == v

OneSidedVars ==
    (Names(prod_ds.vars) \ Names(dev_ds.vars)) \cup (Names(dev_ds.vars) \ Names(prod_ds.vars))

C9_AttsEqualIsSequenceEquality ==
    Compared =>
        \A k \in Shared(dev_ds.vars, prod_ds.vars) :
            get(VarDiff.var_content, k).atts_equal
                <=> get(dev_ds.vars, k).atts = get(prod_ds.vars, k).atts

(***************************************************************************)
(* C10.  For a variable of both sides arrays_equal is true exactly when    *)
(* the shapes agree and every pair of cells agrees, where a masked cell    *)
(* agrees with a masked cell and with an unmasked -9999, NaN agrees with   *)
(* NaN, and two other unmasked cells agree when they hold the same number. *)
(***************************************************************************)
SameCell(c, d) ==
    \/ c.masked /\ d.masked
    \/ c.masked /\ ~d.masked /\ d.val = Num(-9999)
    \/ ~c.masked /\ d.masked /\ c.val = Num(-9999)
    \/ ~c.masked /\ ~d.masked /\ c.val.nan /\ d.val.nan
    \/ ~c.masked /\ ~d.masked /\ ~c.val.nan /\ ~d.val.nan /\ c.val.num = d.val.num

SameArray(a, b) ==
    /\ a.shape = b.shape
    /\ Len(a.cells) = Len(b.cells)
    /\ \A i \in 1..Len(a.cells) : SameCell(a.cells[i], b.cells[i])

C10_ArraysEqual ==
    Compared =>
        \A k \in Shared(dev_ds.vars, prod_ds.vars) :
            get(VarDiff.var_content, k).arrays_equal
                <=> SameArray(get(dev_ds.vars, k).data, get(prod_ds.vars, k).data)

\* Equal although no cell equals the other under ==: a masked cell against
\* -9999 and NaN against NaN.
C10_Witness ==
    /\ Compared
    /\ \E k \in Shared(dev_ds.vars, prod_ds.vars) :
          LET a == get(dev_ds.vars, k).data
              b == get(prod_ds.vars, k).data
          IN /\ Len(a.cells) = 2
             /\ Len(b.cells) = 2
             /\ a.cells[1].masked /\ ~b.cells[1].masked
             /\ ~a.cells[2].masked /\ a.cells[2].val.nan
             /\ get(VarDiff.var_content, k).arrays_equal

(***************************************************************************)
(* write_html_reports: the current report of a dataset, its rotation into  *)
(* the archive, and the timeline.                                          *)
(*                                                                         *)
(* A run timestamp (date_str, "%Y%m%dT%H%M%S") is a number: the order of   *)
(* the strings is the order of the instants.  The file                     *)
(* archive/<date_str>-<dataset>.html is named <<date_str, dataset>>.       *)
(***************************************************************************)
MaxRuns == 3

Dates == {1, 2, 3}

\* Mutant: the archive file is named after the dataset alone.
ArchiveName_without_date(date_str, dataset) == <<0, dataset>>

ArchiveName(date_str, dataset) == <<date_str, dataset>>

\* The archive field of the entry of the run whose report is the current one.
Current == <<"Current">>

\* archive_index = "" : no report was rotated.
NoArchive == <<>>

check_not_equal_status(gd, ops_num, uat_num) ==
    IF "nc_not_equal" \in DOMAIN gd THEN gd.nc_not_equal
    ELSE IF DOMAIN gd = {}
         THEN IF ops_num = 0 /\ uat_num = 0 THEN <<>> ELSE <<"Error">>
         ELSE <<>>

\* index-<dataset>-new.html as write_html_header, write_html_overview and
\* write_granule_html leave it: the <h1> lines (each by the first word after
\* the tag), the overview, and how often "../" was put before the links of
\* the navigation bar.
html_report(date_str, num_ops, num_uat, nc_not_equal) ==
    [h1 |-> <<date_str>>, num_ops |-> num_ops, num_uat |-> num_uat,
     nc_not_equal |-> nc_not_equal, nav |-> 0]

update_nav(page) == [page EXCEPT !.nav = @ + 1]

\* shutil.move into a directory: a file of that name is replaced.
move_to(dir, name, content) ==
    [n \in DOMAIN dir \cup {name} |-> IF n = name THEN content ELSE dir[n]]

\* Mutant: a key that exists is added once more.
put_always_appends(m, k, v) == Append(m, <<k, v>>)

\* d[k] = v on a dict: a key that exists keeps its place.
put(m, k, v) ==
    IF has_key(m, k)
    THEN [i \in 1..Len(m) |-> IF m[i][1] = k THEN <<k, v>> ELSE m[i]]
    ELSE Append(m, <<k, v>>)

\* Mutant: the oldest entry is left out.
sorted_reverse_drops_oldest(m) ==
    LET RECURSIVE sorted(_)
        sorted(r) ==
            IF r = <<>> THEN <<>>
            ELSE LET i == CHOOSE i \in 1..Len(r) : \A j \in 1..Len(r) : r[j][1] <= r[i][1]
                 IN <<r[i]>> \o sorted(SelectSeq(r, LAMBDA e : e[1] # r[i][1]))
    IN SubSeq(sorted(m), 1, Len(m) - 1)

\* OrderedDict(sorted(previous_data.items(), reverse=True))
RECURSIVE sorted_reverse(_)
sorted_reverse(m) ==
    IF m = <<>> THEN <<>>
    ELSE LET i == CHOOSE i \in 1..Len(m) : \A j \in 1..Len(m) : m[j][1] <= m[i][1]
         IN <<m[i]>> \o sorted_reverse(SelectSeq(m, LAMBDA e : e[1] # m[i][1]))

write_current_timeline(dataset, date_str, num_ops, num_uat, nc_not_equal) ==
    [hour |-> date_str, num_ops |-> num_ops, num_uat |-> num_uat,
     equality |-> Len(nc_not_equal) = 0, href |-> <<"index", dataset>>, text |-> Current]

\* Mutant: the entries keep the placeholder.
update_previous_keeps_placeholder(previous_data, archive_name) == previous_data

\* The first loop of write_previous_timeline: it changes previous_data.
update_previous(previous_data, archive_name) ==
    [i \in 1..Len(previous_data) |->
        IF previous_data[i][2].archive = Current
        THEN <<previous_data[i][1], [previous_data[i][2] EXCEPT !.archive = archive_name]>>
        ELSE previous_data[i]]

\* The second loop of write_previous_timeline: one row for each entry.
write_previous_timeline(previous_data) ==
    [i \in 1..Len(previous_data) |->
        [hour |-> previous_data[i][1],
         num_ops |-> previous_data[i][2].num_ops,
         num_uat |-> previous_data[i][2].num_uat,
         equality |-> previous_data[i][2].equality,
         href |-> <<"archive", previous_data[i][2].archive>>,
         text |-> previous_data[i][2].archive]]

\* Mutant: the history is started afresh on every run.
write_timeline_json_afresh(previous_data, date_str, num_ops, num_uat, nc_not_equal) ==
    <<<<date_str, [num_ops |-> num_ops, num_uat |-> num_uat,
                   equality |-> Len(nc_not_equal) = 0, archive |-> Current]>>>>

write_timeline_json(previous_data, date_str, num_ops, num_uat, nc_not_equal) ==
    put(previous_data, date_str,
        [num_ops |-> num_ops, num_uat |-> num_uat,
         equality |-> Len(nc_not_equal) = 0, archive |-> Current])

\* What a run is given: the numbers of granules of both sides and the
\* granule_data of write_txt_report.
SampleProd == Dataset(<<<<"time", [name |-> "time", size |-> 10]>>>>, CreatedAt("a"), <<>>)

SampleDev(size) == Dataset(<<<<"time", [name |-> "time", size |-> size]>>>>, CreatedAt("b"), <<>>)

SampleData(size) ==
    <<<<Granule, [dim_dict |-> compare_dimensions(SampleDev(size), SampleProd),
                  att_dict |-> compare_attributes(SampleDev(size), SampleProd),
                  var_dict |-> compare_variables(SampleDev(size), SampleProd)]>>>>

Outcomes ==
    {[num_ops |-> 0, num_uat |-> 1, granule_data |-> <<>>],
     [num_ops |-> 1, num_uat |-> 1,
      granule_data |-> write_netcdf_report(SampleData(10)).granule_data],
     [num_ops |-> 2, num_uat |-> 2,
      granule_data |-> write_netcdf_report(SampleData(12)).granule_data]}

Running(p) == run[p].at \notin {"idle", "done", "failed"}

Ended(p, how) ==
    /\ run' = [run EXCEPT ![p].at = how]
    /\ runs' = [runs EXCEPT ![run[p].id].status = how]

\* write_html_reports up to the call of archive_html_report: the new report
\* is written to index-<dataset>-new.html.
write_new_index(p, d, date_str, num_ops, num_uat, gd) ==
    LET nc_not_equal == check_not_equal_status(gd, num_ops, num_uat)
    IN /\ new_index' = [new_index EXCEPT ![d] =
                          <<html_report(date_str, num_ops, num_uat, nc_not_equal)>>]
       /\ run' = [run EXCEPT ![p] =
                    [at |-> "archive", id |-> Len(runs) + 1, dataset |-> d,
                     date_str |-> date_str, num_ops |-> num_ops,
                     num_uat |-> num_uat, nc_not_equal |-> nc_not_equal,
                     archive_index |-> NoArchive, previous_data |-> <<>>]]
       /\ runs' = Append(runs, [dataset |-> d, date_str |-> date_str,
                                num_ops |-> num_ops, num_uat |-> num_uat,
                                equality |-> Len(nc_not_equal) = 0,
                                overlapped |-> \E q \in Procs :
                                                  Running(q) /\ run[q].dataset = d,
                                status |-> "running"])
       /\ UNCHANGED <<index, archive, json, timeline>>

write_html_reports(p) ==
    /\ ~Running(p)
    /\ Len(runs) < MaxRuns
    /\ \E d \in Datasets, date_str \in Dates, o \in Outcomes :
          write_new_index(p, d, date_str, o.num_ops, o.num_uat, o.granule_data)
    /\ UNCHANGED compare_vars

\* archive_html_report.  date_str is bound by the <h1> lines only; a move
\* of a file that does not exist raises.
archive_html_report(p) ==
    /\ run[p].at = "archive"
    /\ LET d    == run[p].dataset
           prev == index[d]
           h1   == prev[1].h1
           name == ArchiveName(h1[Len(h1)], d)
       IN IF prev # <<>> /\ h1 = <<>>
          THEN Ended(p, "failed") /\ UNCHANGED <<new_index, index, archive>>
          ELSE /\ archive' = IF prev # <<>> THEN move_to(archive, name, update_nav(prev[1]))
                             ELSE archive
               /\ IF new_index[d] = <<>>
                  THEN /\ index' = [index EXCEPT ![d] = <<>>]
                       /\ Ended(p, "failed")
                       /\ UNCHANGED new_index
                  ELSE /\ index' = [index EXCEPT ![d] = new_index[d]]
                       /\ new_index' = [new_index EXCEPT ![d] = <<>>]
                       /\ run' = [run EXCEPT ![p].at = "load",
                                             ![p].archive_index =
                                                 IF prev # <<>> THEN name ELSE NoArchive]
                       /\ UNCHANGED runs
    /\ UNCHANGED <<json, timeline>>
    /\ UNCHANGED compare_vars

\* write_timeline_html, "Load previous data": a history that is not JSON
\* raises.
load_previous_data(p) ==
    /\ run[p].at = "load"
    /\ LET d == run[p].dataset
       IN IF json[d] = <<>>
          THEN run' = [run EXCEPT ![p].at = "timeline"] /\ UNCHANGED runs
          ELSE IF ~json[d][1].ok
          THEN Ended(p, "failed")
          ELSE /\ run' = [run EXCEPT ![p].at = "timeline",
                                     ![p].previous_data = sorted_reverse(json[d][1].data)]
               /\ UNCHANGED runs
    /\ UNCHANGED <<new_index, index, archive, json, timeline>>
    /\ UNCHANGED compare_vars

\* write_timeline_html from "Create page" on, with write_timeline_json.
\* archive_file.name raises when archive_file is "".
write_timeline_html(p) ==
    /\ run[p].at = "timeline"
    /\ LET d   == run[p].dataset
           r   == run[p]
           row == write_current_timeline(d, r.date_str, r.num_ops, r.num_uat, r.nc_not_equal)
       IN IF /\ r.archive_index = NoArchive
             /\ \E i \in 1..Len(r.previous_data) : r.previous_data[i][2].archive = Current
          THEN /\ timeline' = [timeline EXCEPT ![d] = <<<<>>>>]
               /\ Ended(p, "failed")
               /\ UNCHANGED json
          ELSE LET previous_data == update_previous(r.previous_data, r.archive_index)
               IN /\ timeline' = [timeline EXCEPT ![d] =
                                    <<<<row>> \o write_previous_timeline(previous_data)>>]
                  /\ json' = [json EXCEPT ![d] =
                                <<[ok |-> TRUE,
                                   data |-> write_timeline_json(previous_data, r.date_str,
                                               r.num_ops, r.num_uat, r.nc_not_equal)]>>]
                  /\ Ended(p, "done")
    /\ UNCHANGED <<new_index, index, archive>>
    /\ UNCHANGED compare_vars

\* No comparison is part of these runs.
NoCompare ==
    /\ prod_ds = Dataset(<<>>, <<>>, <<>>)
    /\ dev_ds = Dataset(<<>>, <<>>, <<>>)
    /\ netcdf = <<>>
    /\ granule_data = <<>>
    /\ pc = "html"
    /\ ops_granules = <<>>
    /\ test_granules = <<>>
    /\ report = <<>>

InitRuns ==
    /\ NoCompare
    /\ EmptyHtmlDir
    /\ run = [p \in Procs |-> Idle]
    /\ runs = <<>>

html_run(p) ==
    \/ write_html_reports(p)
    \/ archive_html_report(p)
    \/ load_previous_data(p)
    \/ write_timeline_html(p)

\* One run after the other.
NextRuns == html_run(1)

SpecRuns == InitRuns /\ [][NextRuns]_vars

(***************************************************************************)
(* The timeline and the archive over runs that follow one another.         *)
(***************************************************************************)
History(d) == IF json[d] = <<>> THEN <<>> ELSE json[d][1].data

Done(d) == {i \in 1..Len(runs) : runs[i].dataset = d /\ runs[i].status = "done"}

InFlight(d) == \E p \in Procs : Running(p) /\ run[p].dataset = d

DistinctTimestamps(S) ==
    \A i, j \in S : i # j => runs[i].date_str # runs[j].date_str

Latest(S) == CHOOSE i \in S : \A j \in S : j <= i

Carries(entry, i) ==
    /\ entry.num_ops = runs[i].num_ops
    /\ entry.num_uat = runs[i].num_uat
    /\ entry.equality = runs[i].equality

ArchiveOf(d) == {n \in DOMAIN archive : n[2] = d}

IsReportOf(page, i, nav) ==
    /\ page.h1 = <<runs[i].date_str>>
    /\ page.num_ops = runs[i].num_ops
    /\ page.num_uat = runs[i].num_uat
    /\ (Len(page.nc_not_equal) = 0) = runs[i].equality
    /\ page.nav = nav

RoundTrip(d) ==
    DistinctTimestamps(Done(d)) =>
        /\ Len(History(d)) = Cardinality(Done(d))
        /\ \A i \in Done(d) :
              /\ has_key(History(d), runs[i].date_str)
              /\ Carries(get(History(d), runs[i].date_str), i)

Untouched(d) ==
    /\ json'[d] = json[d]
    /\ timeline'[d] = timeline[d]
    /\ index'[d] = index[d]
    /\ new_index'[d] = new_index[d]
    /\ \A n \in DOMAIN archive' : n[2] = d => n \in DOMAIN archive
    /\ \A n \in ArchiveOf(d) : n \in DOMAIN archive' /\ archive'[n] = archive[n]

\* C11: every step of a run for a dataset leaves the history, the current
\* report and the archive of every other dataset as they were, and when a
\* run completes and the completed runs of its dataset have pairwise
\* distinct timestamps, the history of the dataset has exactly one entry for
\* each of them, under its timestamp, with its num_ops, num_uat and equality.
C11_TimelineRoundTrip ==
    [][\A p \in Procs : \A d \in Datasets :
          (run'[p] # run[p] /\ run'[p].dataset = d) =>
              /\ \A other \in Datasets \ {d} : Untouched(other)
              /\ run'[p].at = "done" => RoundTrip(d)']_vars

C11_Witness ==
    /\ Len(runs) = 3
    /\ \A i \in 1..3 : runs[i].status = "done"
    /\ runs[1].dataset = "aqua" /\ runs[2].dataset = "terra" /\ runs[3].dataset = "aqua"
    /\ runs[1].date_str > runs[3].date_str
    /\ runs[1].num_ops # runs[3].num_ops
    /\ Len(History("aqua")) = 2
    /\ Len(History("terra")) = 1

\* C12: when no run for a dataset is under way and its N >= 1 completed
\* runs have pairwise distinct timestamps, the archive holds exactly N-1
\* files of the dataset, one named after the timestamp of each run but the
\* latest, and index-<dataset>.html is the report of the latest run; with
\* N = 1 nothing was rotated and the run completed.
C12_ArchiveRotation ==
    \A d \in Datasets :
        (~InFlight(d) /\ Done(d) # {} /\ DistinctTimestamps(Done(d))) =>
            /\ Cardinality(ArchiveOf(d)) = Cardinality(Done(d)) - 1
            /\ ArchiveOf(d) = {ArchiveName(runs[i].date_str, d) :
                                  i \in Done(d) \ {Latest(Done(d))}}
            /\ index[d] # <<>>
            /\ IsReportOf(index[d][1], Latest(Done(d)), 0)

C12_Witness ==
    /\ Len(runs) = 3
    /\ \A i \in 1..3 : runs[i].status = "done" /\ runs[i].dataset = "aqua"
    /\ DistinctTimestamps(1..3)
    /\ Cardinality(ArchiveOf("aqua")) = 2
    /\ index["aqua"][1].h1 = <<runs[3].date_str>>

LatestAt(d, date_str) == Latest({i \in Done(d) : runs[i].date_str = date_str})

\* C13: when no run for a dataset is under way, the entry of its most
\* recently completed run is the only one whose archive is "Current"; the
\* archive of every other entry is the file named after the entry's own
\* timestamp, and that file exists and is the report of the run the entry
\* was written from.
C13_ArchivePointers ==
    \A d \in Datasets :
        (~InFlight(d) /\ Done(d) # {}) =>
            LET h == History(d)
                last == runs[Latest(Done(d))].date_str
            IN /\ has_key(h, last)
               /\ \A i \in 1..Len(h) :
                     IF h[i][1] = last
                     THEN h[i][2].archive = Current
                     ELSE /\ h[i][2].archive = ArchiveName(h[i][1], d)
                          /\ h[i][2].archive \in DOMAIN archive
                          /\ IsReportOf(archive[h[i][2].archive], LatestAt(d, h[i][1]), 1)
                          /\ Carries(h[i][2], LatestAt(d, h[i][1]))

C13_Witness ==
    /\ Len(runs) = 3
    /\ \A i \in 1..3 : runs[i].status = "done" /\ runs[i].dataset = "aqua"
    /\ runs[1].date_str = runs[2].date_str
    /\ runs[1].num_ops # runs[2].num_ops
    /\ runs[3].date_str # runs[1].date_str
    /\ Len(History("aqua")) = 2

SameCounts(a, b) ==
    /\ a.num_ops = b.num_ops
    /\ a.num_uat = b.num_uat
    /\ a.equality = b.equality

\* C14: the step that writes the history of a run replaces the whole entry
\* of the run's timestamp when there is one, and the number of entries stays;
\* it adds exactly one entry when there is none; every entry of another
\* timestamp keeps its num_ops, num_uat and equality.
C14_AppendOrUpdate ==
    [][\A p \in Procs : \A d \in Datasets :
          (run[p].at = "timeline" /\ run'[p].at = "done" /\ run[p].dataset = d) =>
              LET h == History(d)
                  t == run[p].date_str
              IN /\ Len(History(d)') = IF has_key(h, t) THEN Len(h) ELSE Len(h) + 1
                 /\ has_key(History(d)', t)
                 /\ get(History(d)', t) =
                       [num_ops |-> run[p].num_ops, num_uat |-> run[p].num_uat,
                        equality |-> Len(run[p].nc_not_equal) = 0, archive |-> Current]
                 /\ \A i \in 1..Len(h) :
                       h[i][1] # t =>
                          /\ has_key(History(d)', h[i][1])
                          /\ SameCounts(get(History(d)', h[i][1]), h[i][2])]_vars

C14_Witness ==
    /\ Len(runs) = 3
    /\ \A i \in 1..3 : runs[i].status = "done" /\ runs[i].dataset = "aqua"
    /\ runs[1].date_str = runs[3].date_str
    /\ runs[2].date_str # runs[1].date_str
    /\ ~SameCounts(runs[1], runs[3])
    /\ Len(History("aqua")) = 2
    /\ Carries(get(History("aqua"), runs[3].date_str), 3)

\* C15: no step changes or replaces a file of the archive.
C15_ArchiveImmutable ==
    [][\A n \in DOMAIN archive : n \in DOMAIN archive' /\ archive'[n] = archive[n]]_vars

(***************************************************************************)
(* Runs whose persistence steps can fail: a move that raises, a history    *)
(* that cannot be read, a history that cannot be written.                  *)
(***************************************************************************)
MaxFaults == 1

Faults == Cardinality({i \in 1..Len(runs) : runs[i].status = "failed"})

\* An index-<dataset>.html with no line that starts with <h1>.
NoHeading ==
    [h1 |-> <<>>, num_ops |-> 0, num_uat |-> 0, nc_not_equal |-> <<>>, nav |-> 0]

\* What open(json_file, 'w') and an interrupted json.dump leave.
Partial == [ok |-> FALSE, data |-> <<>>]

\* shutil.move raises: the first move before anything is moved, the second
\* after the rotation.
move_fails(p) ==
    /\ run[p].at = "archive"
    /\ Faults < MaxFaults
    /\ LET d    == run[p].dataset
           prev == index[d]
           h1   == prev[1].h1
       IN /\ prev # <<>> => h1 # <<>>
          /\ \/ prev # <<>> /\ UNCHANGED <<index, archive>>
             \/ /\ archive' = IF prev # <<>>
                              THEN move_to(archive, ArchiveName(h1[Len(h1)], d),
                                           update_nav(prev[1]))
                              ELSE archive
                /\ index' = [index EXCEPT ![d] = <<>>]
    /\ Ended(p, "failed")
    /\ UNCHANGED <<new_index, json, timeline>>
    /\ UNCHANGED compare_vars

\* open(json_file) or json.load raises.
load_fails(p) ==
    /\ run[p].at = "load"
    /\ Faults < MaxFaults
    /\ json[run[p].dataset] # <<>>
    /\ Ended(p, "failed")
    /\ UNCHANGED <<new_index, index, archive, json, timeline>>
    /\ UNCHANGED compare_vars

\* open(json_file, 'w') or json.dump raises; the table of the timeline page
\* is written before.
dump_fails(p) ==
    /\ run[p].at = "timeline"
    /\ Faults < MaxFaults
    /\ LET d   == run[p].dataset
           r   == run[p]
           row == write_current_timeline(d, r.date_str, r.num_ops, r.num_uat, r.nc_not_equal)
       IN /\ ~ /\ r.archive_index = NoArchive
               /\ \E i \in 1..Len(r.previous_data) : r.previous_data[i][2].archive = Current
          /\ timeline' = [timeline EXCEPT ![d] =
                            <<<<row>> \o write_previous_timeline(
                                  update_previous(r.previous_data, r.archive_index))>>]
          /\ \/ UNCHANGED json
             \/ json' = [json EXCEPT ![d] = <<Partial>>]
    /\ Ended(p, "failed")
    /\ UNCHANGED <<new_index, index, archive>>
    /\ UNCHANGED compare_vars

InitFaults ==
    /\ NoCompare
    /\ new_index = [d \in Datasets |-> <<>>]
    /\ \E page \in {<<>>, <<NoHeading>>} :
          index = [d \in Datasets |-> IF d = "aqua" THEN page ELSE <<>>]
    /\ archive = <<>>
    /\ json = [d \in Datasets |-> <<>>]
    /\ timeline = [d \in Datasets |-> <<>>]
    /\ run = [p \in Procs |-> Idle]
    /\ runs = <<>>

\* A run for aqua that compares granules.
write_aqua_reports(p) ==
    /\ write_html_reports(p)
    /\ run'[p].dataset = "aqua"
    /\ run'[p].num_ops > 0

NextFaults ==
    \/ write_aqua_reports(1)
    \/ archive_html_report(1)
    \/ load_previous_data(1)
    \/ write_timeline_html(1)
    \/ move_fails(1)
    \/ load_fails(1)
    \/ dump_fails(1)

SpecFaults == InitFaults /\ [][NextFaults]_vars

DoneAt(d, date_str) == {i \in Done(d) : runs[i].date_str = date_str}

\* C16: after a run has failed, the history of a dataset is a whole
\* history, and every entry that is not the current one names the archive
\* file of its own timestamp, which exists and is the report of a completed
\* run of that timestamp with the entry's counts and verdict.
C16_FailureIsolated ==
    \A d \in Datasets :
        (~InFlight(d) /\ json[d] # <<>>) =>
            /\ json[d][1].ok
            /\ \A i \in 1..Len(History(d)) :
                  LET hour  == History(d)[i][1]
                      entry == History(d)[i][2]
                  IN entry.archive # Current =>
                        /\ entry.archive = ArchiveName(hour, d)
                        /\ entry.archive \in DOMAIN archive
                        /\ \E k \in DoneAt(d, hour) :
                              /\ Carries(entry, k)
                              /\ IsReportOf(archive[entry.archive], k, 1)

\* C17: archive_html_report, called when index-<dataset>.html exists and
\* has no <h1> line, moves it into the archive, puts the new report in its
\* place and returns, and the run goes on to the timeline.
C17_BestEffortRotation ==
    [][\A p \in Procs : \A d \in Datasets :
          (/\ run[p].at = "archive" /\ run[p].dataset = d
           /\ index[d] = <<NoHeading>> /\ run'[p] # run[p]) =>
              /\ run'[p].at = "load"
              /\ index'[d] = new_index[d]
              /\ \E n \in DOMAIN archive' : archive'[n] = update_nav(NoHeading)]_vars

(***************************************************************************)
(* Two invocations at the same time: nothing in write_html_reports keeps   *)
(* the steps of one run from falling between the steps of another.         *)
(***************************************************************************)
NextInterleaved ==
    \E p \in Procs :
        \/ write_aqua_reports(p)
        \/ archive_html_report(p)
        \/ load_previous_data(p)
        \/ write_timeline_html(p)

SpecInterleaved == InitRuns /\ [][NextInterleaved]_vars

Serialized(d) == \A i \in 1..Len(runs) : runs[i].dataset = d => ~runs[i].overlapped

Ran(d) == {i \in 1..Len(runs) : runs[i].dataset = d}

\* C18: when no run for a dataset started while another run for it was
\* under way, every run for it completes, and once they have, with pairwise
\* distinct timestamps, the history has the entry of each of them and each
\* entry but the current one points at the archived report of its own run.
\* The witness is a final state of two overlapping runs of distinct
\* timestamps, both completed, where the history lacks the entry of one.
C18_SerializedRunsKeepBoth ==
    \A d \in Datasets :
        Serialized(d) =>
            /\ \A i \in Ran(d) : runs[i].status # "failed"
            /\ (~InFlight(d) /\ Ran(d) # {} /\ DistinctTimestamps(Ran(d))) =>
                  /\ Len(History(d)) = Cardinality(Ran(d))
                  /\ \A i \in Ran(d) :
                        /\ has_key(History(d), runs[i].date_str)
                        /\ Carries(get(History(d), runs[i].date_str), i)
                        /\ LET entry == get(History(d), runs[i].date_str)
                           IN IF i = Latest(Ran(d))
                              THEN entry.archive = Current
                              ELSE /\ entry.archive = ArchiveName(runs[i].date_str, d)
                                   /\ entry.archive \in DOMAIN archive
                                   /\ IsReportOf(archive[entry.archive], i, 1)

C18_Witness ==
    /\ Len(runs) = 2
    /\ \A i \in 1..2 : runs[i].status = "done" /\ runs[i].dataset = "aqua"
    /\ runs[1].date_str # runs[2].date_str
    /\ runs[2].overlapped
    /\ Len(History("aqua")) = 1

(***************************************************************************)
(* The report file.                                                        *)
(***************************************************************************)
SectionRank(line) ==
    CASE line.section = "dims" -> 1
      [] line.section = "atts" -> 2
      [] line.section = "vars" -> 3
      [] OTHER -> 0

\* Production is the reference, development the candidate.
PartRank(line) ==
    CASE line.part = "title" -> 0
      [] line.part = "prod_present_only" -> 1
      [] line.part = "dev_present_only" -> 2
      [] OTHER -> 3

Detail == {i \in 1..Len(report) : SectionRank(report[i]) > 0}

Trailer == {i \in 1..Len(report) : report[i].section = "netcdf" /\ report[i].part = "nc_not_equal"}

SectionsInOrder ==
    \A i, j \in Detail : i < j => SectionRank(report[i]) <= SectionRank(report[j])

EndsWithOneTrailer ==
    /\ Len(report) \in Trailer
    /\ ~ /\ \E i \in Trailer : report[i].text = "head"
         /\ \E i \in Trailer : report[i].text = "none"

\* C19: in the report of a comparison the lines of the dimensions come
\* before those of the global attributes and these before those of the
\* variables; inside each of the three the production-only names come
\* first, then the development-only names, then the mismatches; and the
\* last lines are the list of the files that differ or the one line that
\* all are equal, not both.
C19_ReportOrder ==
    pc \in {"reported", "raised"} =>
        /\ SectionsInOrder
        /\ \A i, j \in Detail :
              (i < j /\ report[i].section = report[j].section) =>
                  PartRank(report[i]) <= PartRank(report[j])
        /\ EndsWithOneTrailer

\* C20: a run that has no pair to compare leaves a report file, and a line
\* of it says that there was nothing to compare.
C20_NothingToCompareStated ==
    pc = "exit" =>
        /\ report # <<>>
        /\ \E i \in 1..Len(report) : report[i].text = "nothing to compare"

(***************************************************************************)
(* The comparison of the attribute keys of a variable.                     *)
(***************************************************************************)
ProperPrefix(s, t) == Len(s) < Len(t) /\ s = SubSeq(t, 1, Len(s))

\* C21: for a variable of both sides, when the attribute keys of one side
\* are a proper prefix of those of the other (no keys at all is one), the
\* var_content entry that compare_variables builds has atts_equal true.
C21_PrefixIsEqual ==
    Compared =>
        \A k \in Shared(dev_ds.vars, prod_ds.vars) :
            LET dev_atts  == get(dev_ds.vars, k).atts
                prod_atts == get(prod_ds.vars, k).atts
            IN (ProperPrefix(dev_atts, prod_atts) \/ ProperPrefix(prod_atts, dev_atts)) =>
                  get(VarDiff.var_content, k).atts_equal

C21_Witness ==
    /\ Compared
    /\ has_key(dev_ds.vars, "sst") /\ has_key(prod_ds.vars, "sst")
    /\ get(prod_ds.vars, "sst").atts = <<"units", "long_name">>
    /\ get(dev_ds.vars, "sst").atts = <<"units">>
    /\ get(VarDiff.var_content, "sst").atts_equal

(***************************************************************************)
(* The timeline page and the order of the history.                         *)
(***************************************************************************)
Rows(d) == IF timeline[d] = <<>> THEN <<>> ELSE timeline[d][1]

RowOf(d, hour, entry) ==
    [hour |-> hour, num_ops |-> entry.num_ops, num_uat |-> entry.num_uat,
     equality |-> entry.equality,
     href |-> IF entry.archive = Current THEN <<"index", d>> ELSE <<"archive", entry.archive>>,
     text |-> entry.archive]

\* C22: when no run for a dataset is under way, timeline-<dataset>.html has
\* as many rows as the history has entries, and for each entry one row with
\* its timestamp, counts and equality that links to index-<dataset>.html
\* for the current run and to the entry's archive file otherwise.
C22_TimelineRendersHistory ==
    \A d \in Datasets :
        (~InFlight(d) /\ Done(d) # {}) =>
            /\ Len(Rows(d)) = Len(History(d))
            /\ \A i \in 1..Len(History(d)) :
                  \E j \in 1..Len(Rows(d)) :
                      Rows(d)[j] = RowOf(d, History(d)[i][1], History(d)[i][2])

Descending(s) == \A i, j \in 1..Len(s) : i < j => s[i] >= s[j]

Hours(d) == [i \in 1..Len(Rows(d)) |-> Rows(d)[i].hour]

\* C23: when no run for a dataset is under way, the timestamps of the
\* entries of timeline-<dataset>.json, in the order of the file, and those
\* of the rows of timeline-<dataset>.html, from the top, are descending.
C23_OrderedByRecency ==
    \A d \in Datasets :
        (~InFlight(d) /\ Done(d) # {}) =>
            /\ Descending(keys(History(d)))
            /\ Descending(Hours(d))

(***************************************************************************)
(* The exception for date_created and the presence of attributes.          *)
(***************************************************************************)
\* C24: a report that gives equal_atts true has both presence lists of the
\* attribute diff empty.
C24_CarveOutKeepsPresence ==
    Reported =>
        (Verdict.equal_atts =>
            /\ AttDiff.dev_present_only = <<>>
            /\ AttDiff.prod_present_only = <<>>)

(***************************************************************************)
(* A whole run with --html: the queries, the comparison, the text report   *)
(* and the html reports with the timeline.                                 *)
(***************************************************************************)
\* write_reports after write_txt_report has returned: with create_html the
\* granule lists and granule_data go to write_html_reports.
write_reports ==
    /\ pc \in {"reported", "exit"}
    /\ run[1] = Idle
    /\ \E d \in Datasets, date_str \in Dates :
          write_new_index(1, d, date_str, Len(ops_granules), Len(test_granules), granule_data)
    /\ pc' = "html"
    /\ UNCHANGED <<prod_ds, dev_ds, netcdf, granule_data, ops_granules, test_granules, report>>

InitHandler ==
    \E ops \in Found, test \in Found, a \in AttContexts, d1 \in SmallDims, d2 \in SmallDims :
        Queried(Dataset(d1, a[1], <<>>), Dataset(d2, a[2], <<>>), ops, test)

NextHandler ==
    \/ compare_netcdfs
    \/ write_txt_report
    \/ cannot_compare
    \/ write_reports
    \/ archive_html_report(1)
    \/ load_previous_data(1)
    \/ write_timeline_html(1)

SpecHandler == InitHandler /\ [][NextHandler]_vars

OneSided ==
    \/ granule_diffs_of(ops_granules, test_granules).ops_only # <<>>
    \/ granule_diffs_of(ops_granules, test_granules).test_only # <<>>

\* C25: an entry of the history has equality true only when no granule is
\* on one side alone and either there are no granules at all or the compared
\* pair is equal.
C25_OneSidedIsNotEqual ==
    \A d \in Datasets :
        \A i \in 1..Len(History(d)) :
            History(d)[i][2].equality =>
                /\ ~OneSided
                /\ Len(ops_granules) = 0 \/ VerdictEqual

====
